---------------------------- MODULE Spec2Model ----------------------------
(***************************************************************************)
(* A model of the windowed-variance feature of the features library        *)
(* (IncrementalVarianceFeature.cpp): its interpreted evaluator, the layer  *)
(* graph it lowers to, its factory, and of the IR optimizer pass pipeline  *)
(* (IROptimizer.cpp).                                                      *)
(*                                                                         *)
(* Doubles are modelled as exact rationals [n, d] in lowest terms; d = 0   *)
(* stands for a non-finite value (a division by zero).  Floating-point     *)
(* rounding is not modelled: both evaluation strategies apply the same     *)
(* operations in the same order, so rounding affects them alike.           *)
(***************************************************************************)
EXTENDS Integers, Sequences, FiniteSets, TLC

(***************************************************************************)
(* Bounds of the model.                                                    *)
(***************************************************************************)
MaxDim == 2        \* widest input vector
MaxWindow == 3     \* largest window size
MaxCalls == 3      \* ComputeOutput calls in Spec
MaxTicks == 5      \* sample ticks in SpecStream

\* Component values of the free samples (non-zero, squares differ from the values).
SampleValues == {-1, 2}

VARIABLES
    \* ---- IncrementalVarianceFeature / BufferedFeature / Feature
    constructed,      \* the feature object exists
    windowSize,       \* BufferedFeature::_windowSize
    samples,          \* BufferedFeature's window buffer, oldest first
    runningSum,       \* _runningSum
    runningSumSq,     \* _runningSumSq
    outputDimension,  \* Feature::_outputDimension
    inputData,        \* _inputFeatures[0]->GetOutput(), the input feature's current output
    result,           \* what the last ComputeOutput call returned or threw
    ticks,            \* number of successful ComputeOutput calls (samples pushed)
    \* ---- layers::Model and IncrementalVarianceFeature::AddToModel
    layers,           \* the Model's layers, in creation order
    featureOutputs,   \* the featureOutputs map: a set of <<feature, CoordinateList>>
    emplaced,         \* AddToModel's position: layers it has appended so far
    lowering,         \* an AddToModel call is in progress
    addResult,        \* what the last AddToModel call returned or threw
    \* ---- the runtime of the lowered graph
    layerState,       \* per layer: shift-register contents / accumulator total
    graphOutput,      \* the graph's output at AddToModel's returned coordinates
    fed,              \* the last windowSize samples the input stream delivered
    \* ---- IncrementalVarianceFeature::Create
    previousFeatures, \* the FeatureMap: feature id -> Feature* (a function on the ids it holds)
    createResult,     \* what the last Create call returned or threw
    \* ---- IROptimizer
    functionPasses,   \* _functionPasses, the passes in the order added
    modulePasses,     \* _modulePasses, the passes in the order added
    builder,          \* the llvm::PassManagerBuilder of the last AddStandardPasses
    targetMachine,    \* _module.GetTargetMachine() is not null
    wellFormed,       \* the module's functions: function -> it passes verification
    passLog,          \* the passes run so far: <<pass, level, functions it ran on>>
    aborted,          \* the verifier has ended the process on a malformed function
    stage,            \* the driving pipeline's position
    pending,          \* functions the pipeline has yet to pass to OptimizeFunction
    rounds            \* times the pipeline has optimized the module

featureVars == <<constructed, windowSize, samples, runningSum, runningSumSq,
                 outputDimension, inputData, result, ticks>>

modelVars == <<layers, featureOutputs, emplaced, lowering, addResult>>

graphVars == <<layerState, graphOutput, fed>>

createVars == <<previousFeatures, createResult>>

optVars == <<functionPasses, modulePasses, builder, targetMachine, wellFormed,
             passLog, aborted, stage, pending, rounds>>

vars == <<featureVars, modelVars, graphVars, createVars, optVars>>

(***************************************************************************)
(* double arithmetic, as exact rationals                                   *)
(***************************************************************************)
Abs(x) == IF x < 0 THEN -x ELSE x

RECURSIVE GCD(_, _)
GCD(a, b) == IF b = 0 THEN a ELSE GCD(b, a % b)

NonFinite == [n |-> 0, d |-> 0]

\* n/d in lowest terms with a positive denominator (d # 0)
Rat(n, d) ==
    LET s == IF d < 0 THEN -1 ELSE 1
        g == GCD(Abs(n), Abs(d))
    IN  [n |-> (s * n) \div g, d |-> (s * d) \div g]

R(i) == [n |-> i, d |-> 1]

IsFinite(x) == x.d # 0

RAdd(x, y) == IF x.d = 0 \/ y.d = 0 THEN NonFinite
              ELSE Rat(x.n * y.d + y.n * x.d, x.d * y.d)

RSub(x, y) == IF x.d = 0 \/ y.d = 0 THEN NonFinite
              ELSE Rat(x.n * y.d - y.n * x.d, x.d * y.d)

RMul(x, y) == IF x.d = 0 \/ y.d = 0 THEN NonFinite
              ELSE Rat(x.n * y.n, x.d * y.d)

RDiv(x, y) == IF x.d = 0 \/ y.d = 0 \/ y.n = 0 THEN NonFinite
              ELSE Rat(x.n * y.d, x.d * y.n)

(***************************************************************************)
(* std::vector<double>                                                     *)
(***************************************************************************)
ZeroVector(dim) == [i \in 1..dim |-> R(0)]

\* std::vector::resize: truncates, or extends with value-initialised (0.0) elements
Resize(v, dim) == [i \in 1..dim |-> IF i <= Len(v) THEN v[i] ELSE R(0)]

\* all vectors of dimension dim over the values vs
VectorsOver(vs, dim) == [1..dim -> {R(x) : x \in vs}]

(***************************************************************************)
(* size_t: unsigned 64-bit integers as four 16-bit limbs, most significant *)
(* first (the model checker's integers are 32 bits wide).                  *)
(***************************************************************************)
LimbBase == 2^16

USize(n) == <<0, 0, 0, n>>

\* u - 1 in unsigned 64-bit arithmetic (0 - 1 wraps to 2^64 - 1)
USubOne(u) ==
    IF u[4] > 0 THEN <<u[1], u[2], u[3], u[4] - 1>>
    ELSE IF u[3] > 0 THEN <<u[1], u[2], u[3] - 1, LimbBase - 1>>
    ELSE IF u[2] > 0 THEN <<u[1], u[2] - 1, LimbBase - 1, LimbBase - 1>>
    ELSE IF u[1] > 0 THEN <<u[1] - 1, LimbBase - 1, LimbBase - 1, LimbBase - 1>>
    ELSE <<LimbBase - 1, LimbBase - 1, LimbBase - 1, LimbBase - 1>>

\* u < v
ULess(u, v) ==
    \E i \in 1..4 : u[i] < v[i] /\ \A j \in 1..(i - 1) : u[j] = v[j]

(***************************************************************************)
(* BufferedFeature: the window buffer                                      *)
(***************************************************************************)
GetWindowSize == windowSize

\* The sample pushed `delay` steps before the most recent one; zero-filled
\* when the history does not reach that far back.
GetDelayedSamples(delay) ==
    IF ULess(delay, USize(Len(samples)))
    THEN samples[Len(samples) - delay[4]]
    ELSE ZeroVector(IF Len(samples) = 0 THEN 0 ELSE Len(samples[Len(samples)]))

\* The buffer after pushing row, the oldest sample evicted when over capacity.
UpdateRowSamples(row) ==
    LET pushed == Append(samples, row)
    IN  IF Len(pushed) > windowSize THEN Tail(pushed) ELSE pushed

(***************************************************************************)
(* IncrementalVarianceFeature::ComputeOutput                               *)
(***************************************************************************)
NoResult == [kind |-> "none", value |-> <<>>, code |-> ""]
Returned(v) == [kind |-> "value", value |-> v, code |-> ""]
Thrown(c) == [kind |-> "error", value |-> <<>>, code |-> c]

\* (mutant) the offset is one short: windowSize-2
DelayOffsetShort == USubOne(USubOne(USize(GetWindowSize)))

\* the offset of the oldest sample: windowSize-1, in size_t arithmetic
DelayOffset == USubOne(USize(GetWindowSize))

\* (mutant) the sample pushed last is taken for the oldest one
OldestSampleLatest(inputDimension) ==
    Resize(GetDelayedSamples(USize(0)), inputDimension)

\* the oldest sample, resized to the input dimension
OldestSample(inputDimension) ==
    Resize(GetDelayedSamples(DelayOffset), inputDimension)

\* (mutant) the running sum adds the new sample and never subtracts the old one
UpdatedSumNotEvicting(data, old) ==
    LET dim == Len(data)
        sum == Resize(runningSum, dim)
    IN  [i \in 1..dim |-> RAdd(sum[i], data[i])]

\* _runningSum after resize and += (newVal - oldVal)
UpdatedSum(data, old) ==
    LET dim == Len(data)
        sum == Resize(runningSum, dim)
    IN  [i \in 1..dim |-> RAdd(sum[i], RSub(data[i], old[i]))]

\* (mutant) the running sum of squares takes the square of the difference
UpdatedSumSqOfDifference(data, old) ==
    LET dim == Len(data)
        sumSq == Resize(runningSumSq, dim)
    IN  [i \in 1..dim |->
            RAdd(sumSq[i], RMul(RSub(data[i], old[i]), RSub(data[i], old[i])))]

\* _runningSumSq after resize and += (newVal*newVal - oldVal*oldVal)
UpdatedSumSq(data, old) ==
    LET dim == Len(data)
        sumSq == Resize(runningSumSq, dim)
    IN  [i \in 1..dim |->
            RAdd(sumSq[i], RSub(RMul(data[i], data[i]), RMul(old[i], old[i])))]

\* (sumSq - (sum*sum / windowSize)) / windowSize
VarianceOf(sumSq, sum, n) ==
    RDiv(RSub(sumSq, RDiv(RMul(sum, sum), R(n))), R(n))

\* (mutant) the output dimension and the sums are set before the size check
InvalidInputAfterResize(data) ==
    /\ result' = Thrown("invalidArgument")
    /\ outputDimension' = Len(data)
    /\ runningSum' = Resize(runningSum, Len(data))
    /\ runningSumSq' = Resize(runningSumSq, Len(data))
    /\ UNCHANGED <<samples, ticks>>

\* (mutant) the throw is missing and the statement after it returns the input
InvalidInputReturned(data) ==
    /\ result' = Returned(data)
    /\ UNCHANGED <<samples, runningSum, runningSumSq, outputDimension, ticks>>

\* the input has size zero: the exception leaves the call
InvalidInput(data) ==
    /\ result' = Thrown("invalidArgument")
    /\ UNCHANGED <<samples, runningSum, runningSumSq, outputDimension, ticks>>

\* ComputeOutput reading `data` as the input feature's output
ComputeOutputOn(data) ==
    LET inputDimension == Len(data)
    IN  IF inputDimension = 0
        THEN InvalidInput(data)
        ELSE LET old == OldestSample(inputDimension)
                 sum == UpdatedSum(data, old)
                 sumSq == UpdatedSumSq(data, old)
             IN  /\ outputDimension' = inputDimension
                 /\ samples' = UpdateRowSamples(data)
                 /\ runningSum' = sum
                 /\ runningSumSq' = sumSq
                 /\ result' = Returned([i \in 1..inputDimension |->
                                          VarianceOf(sumSq[i], sum[i], GetWindowSize)])
                 /\ ticks' = ticks + 1

ComputeOutput ==
    /\ constructed
    /\ ticks < MaxCalls
    /\ ComputeOutputOn(inputData)
    /\ UNCHANGED <<constructed, windowSize, inputData>>
    /\ UNCHANGED <<modelVars, graphVars, createVars, optVars>>

(***************************************************************************)
(* The constructors, and the input feature advancing to its next output.   *)
(***************************************************************************)
InputOutputs == UNION {VectorsOver(SampleValues, dim) : dim \in 0..MaxDim}

Construct(n) ==
    /\ ~constructed
    /\ constructed' = TRUE
    /\ windowSize' = n
    /\ UNCHANGED <<samples, runningSum, runningSumSq, outputDimension, inputData,
                   result, ticks>>
    /\ UNCHANGED <<modelVars, graphVars, createVars, optVars>>

AdvanceInput(v) ==
    /\ inputData' = v
    /\ result' = NoResult
    /\ UNCHANGED <<constructed, windowSize, samples, runningSum, runningSumSq,
                   outputDimension, ticks>>
    /\ UNCHANGED <<modelVars, graphVars, createVars, optVars>>

(***************************************************************************)
(* layers::Model, Coordinates and the primitive layers                     *)
(*                                                                         *)
(* A Coordinate is <<layer index, element index>>; a CoordinateList is a   *)
(* sequence of Coordinates.  A layer is a record of its operation tag, its *)
(* input CoordinateLists and its output width.                             *)
(***************************************************************************)
InputLayer(dim) ==
    [type |-> "Input", in1 |-> <<>>, in2 |-> <<>>, op |-> "", values |-> <<>>,
     depth |-> 0, size |-> dim]

ConstantLayer(values) ==
    [type |-> "Constant", in1 |-> <<>>, in2 |-> <<>>, op |-> "", values |-> values,
     depth |-> 0, size |-> Len(values)]

ShiftRegisterLayer(input, depth) ==
    [type |-> "ShiftRegister", in1 |-> input, in2 |-> <<>>, op |-> "",
     values |-> <<>>, depth |-> depth, size |-> depth * Len(input)]

AccumulatorLayer(input) ==
    [type |-> "Accumulator", in1 |-> input, in2 |-> <<>>, op |-> "",
     values |-> <<>>, depth |-> 0, size |-> Len(input)]

BinaryOperationLayer(input1, input2, op) ==
    [type |-> "BinaryOperation", in1 |-> input1, in2 |-> input2, op |-> op,
     values |-> <<>>, depth |-> 0, size |-> Len(input1)]

\* The CoordinateList of all outputs of the layer at index `index`
LayerOutputCoordinates(index, size) == [i \in 1..size |-> <<index, i>>]

\* Model::EmplaceLayer: the model with the layer appended
EmplaceLayer(model, layer) == Append(model, layer)

\* RepeatCoordinates: the coordinates, repeated `count` times
RepeatCoordinates(coordinates, count) ==
    [i \in 1..(count * Len(coordinates)) |->
        coordinates[((i - 1) % Len(coordinates)) + 1]]

\* ShiftRegisterLayer::GetDelayedOutputCoordinates: the coordinates, within the
\* register's output, of the sample delayed by `delay` steps (0 = the live one)
GetDelayedOutputCoordinates(bufferOutput, depth, delay) ==
    LET dim == Len(bufferOutput) \div depth
    IN  [i \in 1..dim |-> bufferOutput[delay * dim + i]]

(***************************************************************************)
(* IncrementalVarianceFeature::AddToModel                                  *)
(*                                                                         *)
(* With b layers in the model when the call starts, the call's k-th        *)
(* EmplaceLayer creates layer b+k; the operators below are the call's      *)
(* local variables, the CoordinateLists EmplaceLayer returned.             *)
(***************************************************************************)
NumVarianceLayers == 12

Divisor(b) == LayerOutputCoordinates(b + 1, 1)
DivisorVector(b, dim) == RepeatCoordinates(Divisor(b), dim)
BufferOutput(b, dim, n) == LayerOutputCoordinates(b + 2, (n + 1) * dim)
\* (mutant) the register is tapped one sample early, at delay windowSize-1
OldestSampleCoordinatesEarly(b, dim, n) ==
    GetDelayedOutputCoordinates(BufferOutput(b, dim, n), n + 1, n - 1)

OldestSampleCoordinates(b, dim, n) ==
    GetDelayedOutputCoordinates(BufferOutput(b, dim, n), n + 1, n)
Diff(b, dim) == LayerOutputCoordinates(b + 3, dim)
\* (mutant) the linear running sum is taken from the sum-of-squares accumulator
RunningSumOfSquares(b, dim) == LayerOutputCoordinates(b + 10, dim)
RunningSum(b, dim) == LayerOutputCoordinates(b + 4, dim)
SquaredSum(b, dim) == LayerOutputCoordinates(b + 5, dim)
NormSquaredSum(b, dim) == LayerOutputCoordinates(b + 6, dim)
NewValueSquared(b, dim) == LayerOutputCoordinates(b + 7, dim)
OldValueSquared(b, dim) == LayerOutputCoordinates(b + 8, dim)
\* (mutant) the sum-of-squares accumulator is fed the squared live sample
DiffSquaredOfNewValue(b, dim) == LayerOutputCoordinates(b + 7, dim)
DiffSquared(b, dim) == LayerOutputCoordinates(b + 9, dim)
RunningSquaredSum(b, dim) == LayerOutputCoordinates(b + 10, dim)
VarianceTimesN(b, dim) == LayerOutputCoordinates(b + 11, dim)
Variance(b, dim) == LayerOutputCoordinates(b + 12, dim)

\* The layer the call's k-th EmplaceLayer creates
VarianceLayer(k, b, inputCoordinates, n) ==
    LET dim == Len(inputCoordinates)
    IN  CASE k = 1 -> ConstantLayer(<<R(n)>>)
          [] k = 2 -> ShiftRegisterLayer(inputCoordinates, n + 1)
          [] k = 3 -> BinaryOperationLayer(inputCoordinates,
                          OldestSampleCoordinates(b, dim, n), "subtract")
          [] k = 4 -> AccumulatorLayer(Diff(b, dim))
          [] k = 5 -> BinaryOperationLayer(RunningSum(b, dim), RunningSum(b, dim),
                          "multiply")
          [] k = 6 -> BinaryOperationLayer(SquaredSum(b, dim), DivisorVector(b, dim),
                          "divide")
          [] k = 7 -> BinaryOperationLayer(inputCoordinates, inputCoordinates,
                          "multiply")
          [] k = 8 -> BinaryOperationLayer(OldestSampleCoordinates(b, dim, n),
                          OldestSampleCoordinates(b, dim, n), "multiply")
          [] k = 9 -> BinaryOperationLayer(NewValueSquared(b, dim),
                          OldValueSquared(b, dim), "subtract")
          [] k = 10 -> AccumulatorLayer(DiffSquared(b, dim))
          [] k = 11 -> BinaryOperationLayer(RunningSquaredSum(b, dim),
                          NormSquaredSum(b, dim), "subtract")
          [] k = 12 -> BinaryOperationLayer(VarianceTimesN(b, dim),
                          DivisorVector(b, dim), "divide")

\* featureOutputs.find(_inputFeatures[0]): the entries of the input feature
InputFeature == "input"
InputIterator == {e \in featureOutputs : e[1] = InputFeature}

\* (mutant) the divisor layer is created before the lookup is checked
AddToModelBeginLateCheck ==
    /\ ~lowering
    /\ addResult = NoResult
    /\ IF InputIterator = {}
       THEN /\ addResult' = Thrown("illegalState")
            /\ layers' = EmplaceLayer(layers, ConstantLayer(<<R(GetWindowSize)>>))
            /\ UNCHANGED <<emplaced, lowering>>
       ELSE /\ lowering' = TRUE
            /\ emplaced' = 0
            /\ UNCHANGED <<layers, addResult>>
    /\ UNCHANGED <<featureOutputs, featureVars, graphVars, createVars, optVars>>

\* The call starts: the lookup of the input feature's coordinates
AddToModelBegin ==
    /\ ~lowering
    /\ addResult = NoResult
    /\ IF InputIterator = {}
       THEN /\ addResult' = Thrown("illegalState")
            /\ UNCHANGED <<layers, emplaced, lowering>>
       ELSE /\ lowering' = TRUE
            /\ emplaced' = 0
            /\ UNCHANGED <<layers, addResult>>
    /\ UNCHANGED <<featureOutputs, featureVars, graphVars, createVars, optVars>>

\* (mutant) the call's EmplaceLayer also clears the feature's window and sums
AddToModelEmplaceResetting ==
    /\ lowering
    /\ emplaced < NumVarianceLayers
    /\ LET inputCoordinates == (CHOOSE e \in InputIterator : TRUE)[2]
       IN  layers' = EmplaceLayer(layers,
                        VarianceLayer(emplaced + 1, Len(layers) - emplaced,
                                      inputCoordinates, GetWindowSize))
    /\ emplaced' = emplaced + 1
    /\ samples' = <<>>
    /\ runningSum' = ZeroVector(outputDimension)
    /\ runningSumSq' = ZeroVector(outputDimension)
    /\ UNCHANGED <<constructed, windowSize, outputDimension, inputData, result, ticks>>
    /\ UNCHANGED <<featureOutputs, lowering, addResult, graphVars, createVars, optVars>>

\* The call's next EmplaceLayer
AddToModelEmplace ==
    /\ lowering
    /\ emplaced < NumVarianceLayers
    /\ LET inputCoordinates == (CHOOSE e \in InputIterator : TRUE)[2]
       IN  layers' = EmplaceLayer(layers,
                        VarianceLayer(emplaced + 1, Len(layers) - emplaced,
                                      inputCoordinates, GetWindowSize))
    /\ emplaced' = emplaced + 1
    /\ UNCHANGED <<featureOutputs, lowering, addResult, featureVars, graphVars,
                   createVars, optVars>>

\* The call returns the variance layer's coordinates
AddToModelReturn ==
    /\ lowering
    /\ emplaced = NumVarianceLayers
    /\ LET inputCoordinates == (CHOOSE e \in InputIterator : TRUE)[2]
       IN  addResult' = Returned(Variance(Len(layers) - emplaced,
                                          Len(inputCoordinates)))
    /\ lowering' = FALSE
    /\ UNCHANGED <<layers, featureOutputs, emplaced, featureVars, graphVars,
                   createVars, optVars>>

\* The whole call on a model in which the input feature is lowered: the layers
\* of the model when it returns
AddToModelLayers(model, inputCoordinates, n) ==
    model \o [k \in 1..NumVarianceLayers |->
                 VarianceLayer(k, Len(model), inputCoordinates, n)]

(***************************************************************************)
(* Execution of a Model: one pass over the layers in creation order per    *)
(* sample tick.  Stateful layers carry their state from tick to tick.      *)
(***************************************************************************)
\* The first k elements of v as an explicit sequence
RECURSIVE Elements(_, _)
Elements(v, k) == IF k = 0 THEN <<>> ELSE Append(Elements(v, k - 1), v[k])

\* The values at the coordinates, given the outputs of the layers computed so far
Gather(outputs, coordinates) ==
    Elements([i \in 1..Len(coordinates) |->
                 outputs[coordinates[i][1]][coordinates[i][2]]], Len(coordinates))

ApplyOperation(op, x, y) ==
    CASE op = "add" -> RAdd(x, y)
      [] op = "subtract" -> RSub(x, y)
      [] op = "multiply" -> RMul(x, y)
      [] op = "divide" -> RDiv(x, y)

\* A stateful layer's state before the first tick
InitialLayerState(layer) ==
    CASE layer.type = "ShiftRegister" ->
            [k \in 1..layer.depth |-> ZeroVector(Len(layer.in1))]
      [] layer.type = "Accumulator" -> ZeroVector(Len(layer.in1))
      [] OTHER -> <<>>

\* A layer's state after the tick: the register shifts the live sample in at
\* delay 0, the accumulator adds its input to its total
LayerNextState(layer, state, outputs) ==
    CASE layer.type = "ShiftRegister" ->
            Elements([k \in 1..layer.depth |->
                         IF k = 1 THEN Gather(outputs, layer.in1) ELSE state[k - 1]],
                     layer.depth)
      [] layer.type = "Accumulator" ->
            LET x == Gather(outputs, layer.in1)
            IN  Elements([i \in 1..Len(x) |-> RAdd(state[i], x[i])], Len(x))
      [] OTHER -> state

\* A layer's output in the tick, newState being its state after the tick
LayerOutput(layer, newState, outputs, input) ==
    CASE layer.type = "Input" -> input
      [] layer.type = "Constant" -> layer.values
      [] layer.type = "ShiftRegister" ->
            LET dim == Len(layer.in1)
            IN  Elements([j \in 1..layer.size |->
                             newState[((j - 1) \div dim) + 1][((j - 1) % dim) + 1]],
                         layer.size)
      [] layer.type = "Accumulator" -> newState
      [] layer.type = "BinaryOperation" ->
            LET x == Gather(outputs, layer.in1)
                y == Gather(outputs, layer.in2)
            IN  Elements([i \in 1..Len(x) |-> ApplyOperation(layer.op, x[i], y[i])],
                         Len(x))

\* The outputs and states of all layers after a tick on `input`, layers 1..k-1
\* being computed already
RECURSIVE ModelCompute(_, _, _, _, _)
ModelCompute(model, k, outputs, states, input) ==
    IF k > Len(model) THEN [outputs |-> outputs, states |-> states]
    ELSE LET newState == LayerNextState(model[k], states[k], outputs)
             out == LayerOutput(model[k], newState, outputs, input)
         IN  ModelCompute(model, k + 1, Append(outputs, out),
                          [states EXCEPT ![k] = newState], input)

\* The parts of the state a specification does not use.
ModelIdle ==
    /\ layers = <<>>
    /\ featureOutputs = {}
    /\ emplaced = 0
    /\ lowering = FALSE
    /\ addResult = NoResult

GraphIdle ==
    /\ layerState = <<>>
    /\ graphOutput = <<>>
    /\ fed = <<>>

CreateIdle ==
    /\ previousFeatures = <<>>
    /\ createResult = [kind |-> "none", code |-> "", message |-> <<>>,
                       feature |-> [id |-> "", input |-> "", windowSize |-> 0]]

OptimizerIdle ==
    /\ functionPasses = <<>>
    /\ modulePasses = <<>>
    /\ builder = [OptLevel |-> 0]
    /\ targetMachine = FALSE
    /\ wellFormed = <<>>
    /\ passLog = <<>>
    /\ aborted = FALSE
    /\ stage = "constructed"
    /\ pending = {}
    /\ rounds = 0

Init ==
    /\ ModelIdle
    /\ GraphIdle
    /\ CreateIdle
    /\ OptimizerIdle
    /\ constructed = FALSE
    /\ windowSize = 0
    /\ samples = <<>>
    /\ runningSum = <<>>
    /\ runningSumSq = <<>>
    /\ outputDimension = 0
    /\ inputData \in InputOutputs
    /\ result = NoResult
    /\ ticks = 0

Next ==
    \/ \E n \in 0..MaxWindow : Construct(n)
    \/ \E v \in InputOutputs : AdvanceInput(v)
    \/ ComputeOutput

Spec == Init /\ [][Next]_vars

(***************************************************************************)
(* SpecLower: AddToModel, one EmplaceLayer at a time, on a model that      *)
(* holds an input layer and the layers of features lowered before.         *)
(***************************************************************************)
MaxBaseLayers == 2   \* layers in the model before the call
MaxEvaluations == 1  \* ComputeOutput calls before the feature is lowered

FeatureFresh ==
    /\ constructed = TRUE
    /\ samples = <<>>
    /\ runningSum = <<>>
    /\ runningSumSq = <<>>
    /\ outputDimension = 0
    /\ inputData = <<>>
    /\ result = NoResult
    /\ ticks = 0

\* an input layer of width dim, then layers that double the one before
BaseModel(count, dim) ==
    [k \in 1..count |->
        IF k = 1 THEN InputLayer(dim)
        ELSE BinaryOperationLayer(LayerOutputCoordinates(k - 1, dim),
                                  LayerOutputCoordinates(k - 1, dim), "add")]

OtherFeature == "other"

InitLower ==
    /\ FeatureFresh
    /\ GraphIdle
    /\ CreateIdle
    /\ OptimizerIdle
    /\ windowSize \in 0..MaxWindow
    /\ \E count \in 1..MaxBaseLayers, dim \in 1..MaxDim :
          /\ layers = BaseModel(count, dim)
          /\ \E j \in 1..count, others \in SUBSET {<<OtherFeature, LayerOutputCoordinates(1, dim)>>} :
                featureOutputs \in {others,
                                    others \cup {<<InputFeature, LayerOutputCoordinates(j, dim)>>}}
    /\ emplaced = 0
    /\ lowering = FALSE
    /\ addResult = NoResult

\* The feature is evaluated in interpreted mode, on a sample as wide as the
\* model's input, before it is lowered
EvaluateBeforeLowering(s) ==
    /\ ~lowering
    /\ addResult = NoResult
    /\ ticks < MaxEvaluations
    /\ inputData' = s
    /\ ComputeOutputOn(s)
    /\ UNCHANGED <<constructed, windowSize, modelVars, graphVars, createVars, optVars>>

NextLower ==
    \/ \E s \in VectorsOver(SampleValues, layers[1].size) : EvaluateBeforeLowering(s)
    \/ AddToModelBegin
    \/ AddToModelEmplace
    \/ AddToModelReturn

SpecLower == InitLower /\ [][NextLower]_vars

(***************************************************************************)
(* SpecStream: a stream of samples of constant dimension, evaluated tick   *)
(* by tick by ComputeOutput and by the graph AddToModel built.             *)
(***************************************************************************)
\* The samples the stream may deliver at a tick: a SampleValues value in every
\* component, a vector whose components differ, or the ramp (the tick number
\* in every component)
StreamSamples(dim, tick) ==
    {[i \in 1..dim |-> R(v)] : v \in SampleValues}
        \cup {[i \in 1..dim |-> R(IF i % 2 = 1 THEN -1 ELSE 2)]}
        \cup {[i \in 1..dim |-> R(tick)]}

InitStream ==
    /\ FeatureFresh
    /\ CreateIdle
    /\ OptimizerIdle
    /\ windowSize \in 1..MaxWindow
    /\ \E dim \in 1..MaxDim :
          /\ featureOutputs = {<<InputFeature, LayerOutputCoordinates(1, dim)>>}
          /\ layers = AddToModelLayers(<<InputLayer(dim)>>,
                                       LayerOutputCoordinates(1, dim), windowSize)
          /\ addResult = Returned(Variance(1, dim))
    /\ emplaced = NumVarianceLayers
    /\ lowering = FALSE
    /\ layerState = [k \in 1..Len(layers) |-> InitialLayerState(layers[k])]
    /\ graphOutput = <<>>
    /\ fed = <<>>

\* One sample tick: the input feature delivers s, ComputeOutput evaluates the
\* feature, the model's layers are computed
StreamTick(s) ==
    /\ ticks < MaxTicks
    /\ inputData' = s
    /\ ComputeOutputOn(s)
    /\ LET r == ModelCompute(layers, 1, <<>>, layerState, s)
       IN  /\ layerState' = r.states
           /\ graphOutput' = Gather(r.outputs, addResult.value)
    /\ fed' = LET all == Append(fed, s)
              IN  IF Len(all) > windowSize THEN Tail(all) ELSE all
    /\ UNCHANGED <<constructed, windowSize, modelVars, createVars, optVars>>

NextStream ==
    \E s \in StreamSamples(layers[1].size, ticks + 1) : StreamTick(s)

SpecStream == InitStream /\ [][NextStream]_vars

(***************************************************************************)
(* IncrementalVarianceFeature::Create, the factory                         *)
(*                                                                         *)
(* params is <<id, type tag, input feature id, window size text>>: the     *)
(* code's params[0..3] are params[1..4] here.  A Feature* is the id of the *)
(* feature it points to, or NullFeature.  Text is a sequence of characters.*)
(***************************************************************************)
FeatureIds == {"f1", "f2", "f3"}
NullFeature == "nullptr"
VarianceTag == "IncrementalVariance"
WindowTexts == {<<"0">>, <<"3">>, <<"1", "2">>, <<"x">>, <<"2", "x">>, <<>>}
CreateParams == {<<id, VarianceTag, input, text>> :
                    id \in FeatureIds, input \in FeatureIds, text \in WindowTexts}

Digits == <<"0", "1", "2", "3", "4", "5", "6", "7", "8", "9">>
IsDigit(c) == \E v \in 1..Len(Digits) : Digits[v] = c
DigitValue(c) == (CHOOSE v \in 1..Len(Digits) : Digits[v] = c) - 1

RECURSIVE DecimalValue(_, _)
DecimalValue(text, acc) ==
    IF text = <<>> THEN acc
    ELSE DecimalValue(Tail(text), acc * Len(Digits) + DigitValue(text[1]))

\* ParseInt: the number the text denotes; malformed text is an error
ParseInt(text) ==
    IF text # <<>> /\ \A i \in 1..Len(text) : IsDigit(text[i])
    THEN [ok |-> TRUE, value |-> DecimalValue(text, 0)]
    ELSE [ok |-> FALSE, value |-> 0]

NoFeature == [id |-> "", input |-> "", windowSize |-> 0]
NotCreated ==
    [kind |-> "none", code |-> "", message |-> <<>>, feature |-> NoFeature]
CreateThrown(code, message) ==
    [kind |-> "error", code |-> code, message |-> message, feature |-> NoFeature]
Created(feature) ==
    [kind |-> "value", code |-> "", message |-> <<>>, feature |-> feature]

\* the exception of line 131: the message ends with params[2]
UnknownInputFeature(inputId) ==
    CreateThrown("badStringFormat",
        <<"Error deserializing feature description: unknown input feature ", inputId>>)

\* the error ParseInt ends the call with
MalformedNumber(text) == CreateThrown("parse", <<"malformed number ", text>>)

\* FeatureMap::operator[]: the map after the lookup, a missing key being
\* inserted with a null pointer
LookedUp(map, id) ==
    IF id \in DOMAIN map THEN map
    ELSE [i \in DOMAIN map \cup {id} |-> IF i = id THEN NullFeature ELSE map[i]]

\* (mutant) the null check is missing
CreateUnchecked(params) ==
    LET map == LookedUp(previousFeatures, params[3])
        parsed == ParseInt(params[4])
    IN  /\ previousFeatures' = map
        /\ createResult' =
              IF ~parsed.ok THEN MalformedNumber(params[4])
              ELSE Created([id |-> params[1], input |-> map[params[3]],
                            windowSize |-> parsed.value])
        /\ UNCHANGED <<featureVars, modelVars, graphVars, optVars>>

Create(params) ==
    LET map == LookedUp(previousFeatures, params[3])
        inputFeature == map[params[3]]
        parsed == ParseInt(params[4])
    IN  /\ previousFeatures' = map
        /\ createResult' =
              IF ~parsed.ok THEN MalformedNumber(params[4])
              ELSE IF inputFeature = NullFeature
                   THEN UnknownInputFeature(params[3])
                   ELSE Created([id |-> params[1], input |-> inputFeature,
                                 windowSize |-> parsed.value])
        /\ UNCHANGED <<featureVars, modelVars, graphVars, optVars>>

\* The caller records the feature Create returned in the map, under its id
Register ==
    /\ createResult.kind = "value"
    /\ previousFeatures' =
          [i \in DOMAIN previousFeatures \cup {createResult.feature.id} |->
              IF i = createResult.feature.id THEN i ELSE previousFeatures[i]]
    /\ createResult' = NotCreated
    /\ UNCHANGED <<featureVars, modelVars, graphVars, optVars>>

FeatureIdle ==
    /\ constructed = FALSE
    /\ windowSize = 0
    /\ samples = <<>>
    /\ runningSum = <<>>
    /\ runningSumSq = <<>>
    /\ outputDimension = 0
    /\ inputData = <<>>
    /\ result = NoResult
    /\ ticks = 0

InitCreate ==
    /\ FeatureIdle
    /\ ModelIdle
    /\ GraphIdle
    /\ OptimizerIdle
    /\ \E held \in SUBSET FeatureIds : previousFeatures = [i \in held |-> i]
    /\ createResult = NotCreated

NextCreate ==
    \/ \E params \in CreateParams : Create(params)
    \/ Register

SpecCreate == InitCreate /\ [][NextCreate]_vars

(***************************************************************************)
(* IROptimizer                                                             *)
(*                                                                         *)
(* A pass is its name.  A legacy pass manager runs its passes in the order *)
(* they were added; the function pass manager runs them on one function,   *)
(* the module pass manager on the whole module.  The verifier pass ends    *)
(* the process on a function that is not well formed.                      *)
(***************************************************************************)
MaxRounds == 2   \* times the driver optimizes the module

Functions == {"f1", "f2", "f3"}

\* llvm::PassManagerBuilder as AddStandardPasses configures it
ConfiguredBuilder ==
    [OptLevel |-> 3, SizeLevel |-> 0, Inliner |-> TRUE, LoopVectorize |-> TRUE,
     SLPVectorize |-> TRUE, adjusted |-> FALSE]

\* TargetMachine::adjustPassManager: the target's extensions enter the builder
AdjustPassManager(b) == [b EXCEPT !.adjusted = TRUE]

\* PassManagerBuilder::populateFunctionPassManager
PopulateFunctionPassManager(b) ==
    (IF b.adjusted THEN <<"TargetFunctionPass">> ELSE <<>>)
        \o (IF b.OptLevel > 0 THEN <<"SROA", "EarlyCSE">> ELSE <<>>)

\* PassManagerBuilder::populateModulePassManager
PopulateModulePassManager(b) ==
    (IF b.adjusted THEN <<"TargetModulePass">> ELSE <<>>)
        \o (IF b.Inliner THEN <<"FunctionInlining">> ELSE <<>>)
        \o (IF b.LoopVectorize THEN <<"LoopVectorize">> ELSE <<>>)
        \o (IF b.SLPVectorize THEN <<"SLPVectorize">> ELSE <<>>)

\* (mutant) the verifier pass is added after the builder's function passes
StandardFunctionPassesVerifierLast(b) ==
    PopulateFunctionPassManager(b) \o <<"Verifier">>

\* what AddStandardPasses adds to _functionPasses: the verifier pass, then the
\* builder's function passes
StandardFunctionPasses(b) ==
    <<"Verifier">> \o PopulateFunctionPassManager(b)

\* IROptimizer::AddStandardPasses
AddStandardPasses ==
    /\ functionPasses' = functionPasses \o StandardFunctionPasses(ConfiguredBuilder)
    /\ modulePasses' = modulePasses \o PopulateModulePassManager(ConfiguredBuilder)
    /\ builder' = IF targetMachine THEN AdjustPassManager(ConfiguredBuilder)
                  ELSE ConfiguredBuilder
    /\ UNCHANGED <<targetMachine, wellFormed, passLog, aborted>>

\* the passes of `passes` that run on function f: all of them, or those up to
\* the verifier pass that rejects f
RECURSIVE PassesRun(_, _)
PassesRun(passes, f) ==
    IF passes = <<>> THEN <<>>
    ELSE IF passes[1] = "Verifier" /\ ~wellFormed[f] THEN <<passes[1]>>
         ELSE <<passes[1]>> \o PassesRun(Tail(passes), f)

\* IROptimizer::OptimizeFunction: _functionPasses.run(*pFunction)
OptimizeFunction(pFunction) ==
    /\ LET ran == PassesRun(functionPasses, pFunction)
       IN  /\ passLog' = passLog \o
                 [i \in 1..Len(ran) |-> <<ran[i], "function", {pFunction}>>]
           /\ aborted' = (Len(ran) < Len(functionPasses))
    /\ UNCHANGED <<functionPasses, modulePasses, builder, targetMachine, wellFormed>>

\* IROptimizer::OptimizeModule: _modulePasses.run(*pModule)
OptimizeModule ==
    /\ passLog' = passLog \o
          [i \in 1..Len(modulePasses) |-> <<modulePasses[i], "module", Functions>>]
    /\ UNCHANGED <<functionPasses, modulePasses, builder, targetMachine, wellFormed,
                   aborted>>

(***************************************************************************)
(* The pipeline that drives the optimizer: the standard passes are added   *)
(* once; then, each time the module is optimized, every function of the    *)
(* module goes through OptimizeFunction and the module through             *)
(* OptimizeModule after them.                                              *)
(***************************************************************************)
PipelineAddStandardPasses ==
    /\ stage = "constructed"
    /\ AddStandardPasses
    /\ stage' = "functions"
    /\ pending' = Functions
    /\ UNCHANGED rounds
    /\ UNCHANGED <<featureVars, modelVars, graphVars, createVars>>

PipelineOptimizeFunction(f) ==
    /\ stage = "functions"
    /\ ~aborted
    /\ f \in pending
    /\ OptimizeFunction(f)
    /\ pending' = pending \ {f}
    /\ UNCHANGED <<stage, rounds>>
    /\ UNCHANGED <<featureVars, modelVars, graphVars, createVars>>

PipelineOptimizeModule ==
    /\ stage = "functions"
    /\ ~aborted
    /\ pending = {}
    /\ OptimizeModule
    /\ stage' = "optimized"
    /\ rounds' = rounds + 1
    /\ UNCHANGED pending
    /\ UNCHANGED <<featureVars, modelVars, graphVars, createVars>>

\* the module is optimized once more
PipelineAgain ==
    /\ stage = "optimized"
    /\ rounds < MaxRounds
    /\ stage' = "functions"
    /\ pending' = Functions
    /\ UNCHANGED <<functionPasses, modulePasses, builder, targetMachine, wellFormed,
                   passLog, aborted, rounds>>
    /\ UNCHANGED <<featureVars, modelVars, graphVars, createVars>>

InitOptimizer ==
    /\ FeatureIdle
    /\ ModelIdle
    /\ GraphIdle
    /\ CreateIdle
    /\ functionPasses = <<>>
    /\ modulePasses = <<>>
    /\ builder = [OptLevel |-> 0]
    /\ targetMachine \in BOOLEAN
    /\ wellFormed \in [Functions -> BOOLEAN]
    /\ passLog = <<>>
    /\ aborted = FALSE
    /\ stage = "constructed"
    /\ pending = {}
    /\ rounds = 0

NextOptimizer ==
    \/ PipelineAddStandardPasses
    \/ \E f \in Functions : PipelineOptimizeFunction(f)
    \/ PipelineOptimizeModule
    \/ PipelineAgain

SpecOptimizer == InitOptimizer /\ [][NextOptimizer]_vars

(***************************************************************************)
(*                              The claims                                 *)
(***************************************************************************)

\* the sum over the window w of component i / of its square
RECURSIVE WindowSum(_, _)
WindowSum(w, i) == IF w = <<>> THEN R(0) ELSE RAdd(w[1][i], WindowSum(Tail(w), i))

RECURSIVE WindowSumSq(_, _)
WindowSumSq(w, i) ==
    IF w = <<>> THEN R(0) ELSE RAdd(RMul(w[1][i], w[1][i]), WindowSumSq(Tail(w), i))

\* the population variance of component i over the window w, recomputed
\* from the samples: (sum of squares - (sum)^2 / N) / N
DirectVariance(w, i) ==
    RDiv(RSub(WindowSumSq(w, i),
              RDiv(RMul(WindowSum(w, i), WindowSum(w, i)), R(Len(w)))),
         R(Len(w)))

\* C1: at every tick, in every dimension, the graph AddToModel built yields
\* exactly what ComputeOutput returns, the ticks before the window has filled
\* included (window sizes 1..MaxWindow, dimensions 1..MaxDim).
C1_GraphMatchesComputeOutput ==
    ticks >= 1 =>
        /\ result.kind = "value"
        /\ Len(graphOutput) = Len(result.value)
        /\ \A i \in 1..Len(result.value) : graphOutput[i] = result.value[i]

\* C1 witness: a tick before the window has filled, with a non-zero variance
C1_Witness ==
    /\ windowSize = 3
    /\ ticks = 2
    /\ Len(result.value) = 2
    /\ graphOutput = result.value
    /\ result.value[1] # R(0)
    /\ result.value[2] # R(0)

\* C2: at every tick t >= N the output equals, per dimension, the population
\* variance recomputed from the last N samples; with dimension 1, N = 3 and
\* the stream 1,2,3,4,5 the outputs at ticks 3, 4 and 5 are 2/3.
C2_OutputIsWindowVariance ==
    /\ ticks >= windowSize =>
          /\ Len(fed) = windowSize
          /\ \A i \in 1..Len(result.value) :
                result.value[i] = DirectVariance(fed, i)
    /\ (/\ windowSize = 3
        /\ ticks \in 3..5
        /\ fed = <<<<R(ticks - 2)>>, <<R(ticks - 1)>>, <<R(ticks)>>>>) =>
          result.value = <<Rat(2, 3)>>

\* C2 witness: tick 5 of the stream 1,2,3,4,5 on a window of 3
C2_Witness ==
    /\ windowSize = 3
    /\ ticks = 5
    /\ fed = <<<<R(3)>>, <<R(4)>>, <<R(5)>>>>
    /\ runningSum = <<R(12)>>
    /\ result.value = <<Rat(2, 3)>>

\* C3: in every state in which fewer than windowSize samples have been
\* pushed, the departing sample a ComputeOutput call obtains and subtracts
\* (the delayed-sample lookup at windowSize-1, resized) has exactly the input
\* dimension, whatever that is, and is zero in every component.
C3_DepartingSampleZeroBeforeFill ==
    ticks < windowSize =>
        \A inputDimension \in 1..MaxDim :
            /\ Len(OldestSample(inputDimension)) = inputDimension
            /\ \A i \in 1..inputDimension : OldestSample(inputDimension)[i] = R(0)

\* C3 witness: two calls made on a window of three, on inputs of different
\* widths: the buffer holds two non-zero samples and the third call is due
C3_Witness ==
    /\ windowSize = 3
    /\ ticks = 2
    /\ Len(samples) = 2
    /\ Len(samples[1]) = 1
    /\ Len(samples[2]) = 2
    /\ result.kind = "value"
    /\ runningSum # ZeroVector(2)

\* C4: a ComputeOutput call on an input of dimension zero throws
\* invalidArgument, returns nothing, and leaves the window buffer, both
\* running sums and the output dimension as they were, in any state.
C4_ZeroDimensionThrowsNoChange ==
    [][(ComputeOutput /\ Len(inputData) = 0) =>
          /\ result' = Thrown("invalidArgument")
          /\ UNCHANGED <<samples, runningSum, runningSumSq, outputDimension>>]_vars

\* C4 witness: the call has failed after earlier successful calls
C4_Witness ==
    /\ ticks >= 1
    /\ outputDimension >= 1
    /\ Len(inputData) = 0
    /\ result = Thrown("invalidArgument")

\* C5: when the input feature has no entry in featureOutputs, AddToModel
\* throws illegalState before it creates any layer: the model holds the layers
\* it held before the call.
C5_MissingInputThrowsBeforeAnyLayer ==
    [][InputIterator = {} =>
          /\ layers' = layers
          /\ ~lowering'
          /\ AddToModelBegin => addResult' = Thrown("illegalState")]_vars

\* C5 witness: the call has failed on a map that holds another feature only
C5_Witness ==
    /\ InputIterator = {}
    /\ featureOutputs # {}
    /\ addResult = Thrown("illegalState")
    /\ emplaced = 0
    /\ Len(layers) = MaxBaseLayers

\* the layers a CoordinateList refers to
LayersOf(coordinates) == {coordinates[i][1] : i \in 1..Len(coordinates)}

\* C8: during and after AddToModel, every layer the call has appended takes
\* its inputs from layers appended before it (the supplied input coordinates
\* refer to layers the model held before the call).
C8_CreationOrderIsTopological ==
    \A k \in (Len(layers) - emplaced + 1)..Len(layers) :
        \A l \in LayersOf(layers[k].in1) \cup LayersOf(layers[k].in2) :
            l >= 1 /\ l < k

\* C8 witness: the call has returned, on a model that held other layers
C8_Witness ==
    /\ addResult.kind = "value"
    /\ emplaced = NumVarianceLayers
    /\ Len(layers) = MaxBaseLayers + NumVarianceLayers
    /\ LayersOf(layers[Len(layers)].in1) = {Len(layers) - 1}

\* C6 (as claimed): a Create call whose input-feature id is absent from the
\* registry fails with the deserialization error that names the missing id,
\* and returns no feature.
C6_UnknownInputNamed ==
    [][\A params \in CreateParams :
          (Create(params) /\ params[3] \notin DOMAIN previousFeatures) =>
              createResult' = UnknownInputFeature(params[3])]_vars

\* C6 (amended): such a call fails and returns no feature; its error is the
\* deserialization error naming the missing id when the window size text
\* (params[3] of the code) is a well-formed number, and the number parser's
\* error otherwise, the text being parsed before the looked-up pointer is
\* tested.
C6_UnknownInputFails ==
    [][\A params \in CreateParams :
          (Create(params) /\ params[3] \notin DOMAIN previousFeatures) =>
              /\ createResult'.kind = "error"
              /\ createResult'.feature = NoFeature
              /\ ParseInt(params[4]).ok =>
                    createResult' = UnknownInputFeature(params[3])
              /\ ~ParseInt(params[4]).ok =>
                    createResult' = MalformedNumber(params[4])]_vars

\* C6 witness: a call has failed naming f2, in a registry that holds f1
C6_Witness ==
    /\ createResult.kind = "error"
    /\ createResult.code = "badStringFormat"
    /\ createResult.message[2] = "f2"
    /\ "f1" \in DOMAIN previousFeatures
    /\ previousFeatures["f1"] = "f1"

\* C7 (as claimed): once established, the output dimension never changes
C7_OutputDimensionFixed ==
    [][outputDimension # 0 => outputDimension' = outputDimension]_vars

\* the function f was checked by the verifier pass before the i-th pass ran
VerifiedBefore(i, f) ==
    \E j \in 1..(i - 1) : passLog[j][1] = "Verifier" /\ f \in passLog[j][3]

\* a function-level optimization pass ran on f before the i-th pass ran
FunctionOptimizedBefore(i, f) ==
    \E j \in 1..(i - 1) :
        /\ passLog[j][1] # "Verifier"
        /\ passLog[j][2] = "function"
        /\ f \in passLog[j][3]

\* C9: verification runs first, then the function-level sequence, then the
\* module-level sequence: every function-level or module-level optimization
\* pass runs on functions the verifier pass has already checked (and passed),
\* and every module-level pass after the function-level passes.
C9_OptimizationOnlyAfterVerification ==
    \A i \in 1..Len(passLog) :
        passLog[i][1] # "Verifier" =>
            \A f \in passLog[i][3] :
                /\ VerifiedBefore(i, f)
                /\ wellFormed[f]
                /\ passLog[i][2] = "module" => FunctionOptimizedBefore(i, f)

\* C9 witness: the module has been optimized: f1 verified, then optimized,
\* the module passes last
C9_Witness ==
    /\ stage = "optimized"
    /\ passLog[1] = <<"Verifier", "function", {"f1"}>>
    /\ passLog[2] = <<"SROA", "function", {"f1"}>>
    /\ passLog[Len(passLog)] = <<"SLPVectorize", "module", Functions>>

\* C10 (as claimed): constructing the feature over an input whose output is
\* zero-width fails
C10_ConstructionRejectsZeroWidth ==
    [][(~constructed /\ Len(inputData) = 0) => ~constructed']_vars

\* C10 (amended): construction does not look at the input; it is ComputeOutput
\* that rejects a zero-width input: a call on it ends in the invalidArgument
\* error, and every vector ComputeOutput returns is non-empty, as wide as its
\* non-empty input.
C10_ZeroWidthRejectedByComputeOutput ==
    /\ (result.kind # "none" /\ Len(inputData) = 0) =>
            result = Thrown("invalidArgument")
    /\ result.kind = "value" =>
            /\ Len(inputData) > 0
            /\ Len(result.value) = Len(inputData)

\* C10 witness: a feature that never saw a sample, called on a zero-width input
C10_Witness ==
    /\ constructed
    /\ ticks = 0
    /\ Len(inputData) = 0
    /\ result.kind = "error"

\* the coordinates are all the outputs of layer k, in order
WholeOutputOf(coordinates, k) ==
    /\ k \in 1..Len(layers)
    /\ Len(coordinates) = layers[k].size
    /\ \A i \in 1..Len(coordinates) : coordinates[i] = <<k, i>>

\* the coordinates the lowered feature reads its input from
LoweredInput == (CHOOSE e \in InputIterator : TRUE)[2]

\* the coordinates are the sample delayed by windowSize steps in the output of
\* a delay line of depth windowSize+1 over the feature's input
DelayedByWindow(coordinates) ==
    \E s \in 1..Len(layers) :
        /\ layers[s].type = "ShiftRegister"
        /\ layers[s].in1 = LoweredInput
        /\ layers[s].depth = windowSize + 1
        /\ Len(coordinates) = Len(LoweredInput)
        /\ \A i \in 1..Len(coordinates) :
              coordinates[i] = <<s, windowSize * Len(LoweredInput) + i>>

\* layer p computes x - y per element
Subtracts(p, x, y) ==
    /\ layers[p].type = "BinaryOperation"
    /\ layers[p].op = "subtract"
    /\ layers[p].in1 = x
    /\ layers[p].in2 = y

\* the coordinates are all the outputs of a layer that squares x per element
SquareOf(coordinates, x) ==
    \E q \in 1..Len(layers) :
        /\ WholeOutputOf(coordinates, q)
        /\ layers[q].type = "BinaryOperation"
        /\ layers[q].op = "multiply"
        /\ layers[q].in1 = x
        /\ layers[q].in2 = x

\* accumulator k is fed (live sample - sample delayed by windowSize)
FedLinearDelta(k) ==
    \E p \in 1..(k - 1) :
        /\ WholeOutputOf(layers[k].in1, p)
        /\ layers[p].in1 = LoweredInput
        /\ DelayedByWindow(layers[p].in2)
        /\ Subtracts(p, layers[p].in1, layers[p].in2)

\* accumulator k is fed (live sample squared - delayed sample squared)
FedSquaredDelta(k) ==
    \E p \in 1..(k - 1) :
        /\ WholeOutputOf(layers[k].in1, p)
        /\ Subtracts(p, layers[p].in1, layers[p].in2)
        /\ SquareOf(layers[p].in1, LoweredInput)
        /\ \E old \in {layers[q].in1 : q \in 1..Len(layers)} :
              /\ DelayedByWindow(old)
              /\ SquareOf(layers[p].in2, old)

\* the layers the running AddToModel call has appended, by type
AppendedOfType(type) ==
    {k \in (Len(layers) - emplaced + 1)..Len(layers) : layers[k].type = type}

C13_RunningSumsAreWindowSums ==
    (ticks >= 1 /\ windowSize >= 1) =>
        /\ result.kind = "value"
        /\ Len(fed) = (IF ticks < windowSize THEN ticks ELSE windowSize)
        /\ samples = fed
        /\ Len(runningSum) = outputDimension
        /\ Len(runningSumSq) = outputDimension
        /\ \A i \in 1..outputDimension :
              /\ runningSum[i] = WindowSum(fed, i)
              /\ runningSumSq[i] = WindowSumSq(fed, i)

\* C13 witness: a full window of 2 has slid twice over a 2-wide stream whose
\* samples differ: samples have left the window and the sums are not zero
C13_Witness ==
    /\ windowSize = 2
    /\ ticks = 4
    /\ outputDimension = 2
    /\ fed[1] # fed[2]
    /\ runningSum[1] = WindowSum(fed, 1)
    /\ runningSum[1] # runningSum[2]
    /\ runningSumSq[2] # R(0)

\* C14: AddToModel only appends: in every step the layers the model held stay
\* an unchanged prefix of the layers it holds after the step, and no step of
\* an AddToModel call changes the feature's window buffer, running sum,
\* running sum of squares or output dimension.
C14_AddToModelOnlyAppends ==
    [][/\ Len(layers') >= Len(layers)
       /\ SubSeq(layers', 1, Len(layers)) = layers
       /\ (lowering \/ lowering' \/ addResult' # addResult) =>
             /\ samples' = samples
             /\ runningSum' = runningSum
             /\ runningSumSq' = runningSumSq
             /\ outputDimension' = outputDimension]_vars

\* C14 witness: the call has returned on a feature that was evaluated before,
\* in a model that held other layers: the layers are there, and so are the
\* window and the sums of the evaluation
C14_Witness ==
    /\ addResult.kind = "value"
    /\ Len(layers) = MaxBaseLayers + NumVarianceLayers
    /\ layers[MaxBaseLayers].type = "BinaryOperation"
    /\ ticks = 1
    /\ Len(samples) = 1
    /\ outputDimension = 2
    /\ runningSum = samples[1]
    /\ runningSum[1] # runningSum[2]

\* a ComputeOutput call made when a call has already returned a vector for the
\* input feature's present output
SecondCallOnSameInput == ComputeOutput /\ result.kind = "value"

\* component i of the sample that leaves the window when one more is pushed:
\* the first of a full window, zero otherwise
Departing(i) ==
    IF windowSize >= 1 /\ Len(samples) = windowSize /\ i <= Len(samples[1])
    THEN samples[1][i]
    ELSE R(0)

\* the window is full of samples equal to the input feature's present output
WindowFullOfInput ==
    /\ windowSize >= 1
    /\ Len(samples) = windowSize
    /\ \A k \in 1..Len(samples) : samples[k] = inputData

\* C15 (as claimed): a second ComputeOutput call while the input feature's
\* output is unchanged returns the same vector as the first call and leaves
\* the window buffer and both running sums as the first call left them
C15_SecondCallChangesNothing ==
    [][SecondCallOnSameInput =>
          /\ result' = result
          /\ samples' = samples
          /\ runningSum' = runningSum
          /\ runningSumSq' = runningSumSq]_vars

\* C15 (amended): a second ComputeOutput call on an unchanged input is one more
\* tick that carries the same sample: the sample is pushed into the window
\* again, the oldest one leaving a full window, and the sums take (sample -
\* departing sample) and (sample squared - departing sample squared).  The
\* call returns the same vector and leaves the buffer and both sums as they
\* were when the window is full of samples equal to the input, as it is for
\* windowSize 1; a window of one or more samples that is not full of samples
\* equal to the input is changed by the call.
C15_SecondCallIsAnotherTick ==
    [][SecondCallOnSameInput =>
          /\ ticks' = ticks + 1
          /\ samples' = (IF Len(samples) + 1 > windowSize
                         THEN Tail(Append(samples, inputData))
                         ELSE Append(samples, inputData))
          /\ \A i \in 1..Len(inputData) :
                /\ runningSum'[i] =
                      RAdd(runningSum[i], RSub(inputData[i], Departing(i)))
                /\ runningSumSq'[i] =
                      RAdd(runningSumSq[i],
                           RSub(RMul(inputData[i], inputData[i]),
                                RMul(Departing(i), Departing(i))))
          /\ WindowFullOfInput =>
                /\ result' = result
                /\ samples' = samples
                /\ runningSum' = runningSum
                /\ runningSumSq' = runningSumSq
          /\ windowSize = 1 => WindowFullOfInput
          /\ (windowSize >= 1 /\ ~WindowFullOfInput) => samples' # samples]_vars

\* C15 witness: on a window of 2, two calls were made on the same sample after
\* a call on another one: the second call pushed the sample again
C15_Witness ==
    /\ windowSize = 2
    /\ ticks = 3
    /\ result.kind = "value"
    /\ samples = <<inputData, inputData>>
    /\ runningSum = <<R(4)>>
    /\ runningSumSq = <<R(8)>>

\* C16 (as claimed): a Create call that fails because its input-feature id is
\* unknown leaves the registry as it was: the same ids, mapped to the same
\* features
C16_FailedCreateLeavesRegistry ==
    [][\A params \in CreateParams :
          (/\ Create(params)
           /\ params[3] \notin DOMAIN previousFeatures
           /\ createResult' = UnknownInputFeature(params[3])) =>
              /\ DOMAIN previousFeatures' = DOMAIN previousFeatures
              /\ \A id \in DOMAIN previousFeatures :
                    previousFeatures'[id] = previousFeatures[id]]_vars

\* C17 (as claimed): for every window size the constructor accepts, 0
\* included, the offset ComputeOutput passes to the delayed-sample lookup,
\* windowSize - 1 in unsigned 64-bit arithmetic, is at least 0 and less than
\* windowSize (the offset of every call made so far is the one of the state,
\* the window size never changing)
C17_DelayOffsetWithinWindow ==
    (constructed /\ ticks >= 1) =>
        /\ \A i \in 1..4 : DelayOffset[i] \in 0..(LimbBase - 1)
        /\ ULess(DelayOffset, USize(windowSize))

\* the pass is among the passes of the pass manager
Holds(passes, pass) == \E i \in 1..Len(passes) : passes[i] = pass

\* the pass has run at the given level
HasRun(pass, level) ==
    \E i \in 1..Len(passLog) : passLog[i][1] = pass /\ passLog[i][2] = level

\* C18 (as claimed): when the module has a target machine, AddStandardPasses
\* lets the target machine adjust the builder before the builder populates the
\* two pass managers: the target's passes are among the passes of both, and
\* among the passes OptimizeFunction and OptimizeModule then run
C18_TargetAdjustmentReflected ==
    (targetMachine /\ stage # "constructed") =>
        /\ Holds(functionPasses, "TargetFunctionPass")
        /\ Holds(modulePasses, "TargetModulePass")
        /\ (stage = "optimized" /\ ~aborted) =>
              /\ HasRun("TargetFunctionPass", "function")
              /\ HasRun("TargetModulePass", "module")

=============================================================================
